---------------------------- MODULE Spec2Model ----------------------------
(***************************************************************************)
(* Model of dashboard.py: the Alpha Vantage fetch with its time-to-live    *)
(* cache (get_stock_data), the two indicators (calculate_sma,              *)
(* calculate_rsi) and the script body that computes the headline metrics.  *)
(*                                                                         *)
(* Numbers are exact: a float is modelled as a reduced fraction or one of  *)
(* the IEEE-754 special values inf, -inf, nan.  pandas uses nan for a      *)
(* missing value as well, so "missing" and "not-a-number" are one value.   *)
(***************************************************************************)
EXTENDS Integers, Sequences, FiniteSets, TLC

\* ---------------------------------------------------------------- bounds
MaxLen == 4          \* longest close series given to an indicator
MaxPrice == 3        \* prices are 1..MaxPrice
MaxWin == 3          \* indicator windows are 1..MaxWin
MaxRows == 3         \* most rows in a provider payload
MaxInstant == 3      \* 5-minute bars 1..MaxInstant
MaxTicks == 3        \* the clock stops after MaxTicks half-TTL steps

\* ------------------------------------------------------ program constants
Ttl == 600
SmaShortDefault == 20
SmaLongDefault == 50
RsiDefaultWindow == 14

\* ------------------------------------------------------------ float layer
NaN == [k |-> "nan"]
Inf == [k |-> "inf"]
NegInf == [k |-> "-inf"]

Abs(n) == IF n < 0 THEN -n ELSE n

RECURSIVE Gcd(_, _)
Gcd(a, b) == IF b = 0 THEN a ELSE Gcd(b, a % b)

\* the fraction n/d, d # 0, reduced and with a positive denominator
Frac(n, d) ==
    LET g == Gcd(Abs(n), Abs(d))
        s == IF d < 0 THEN -1 ELSE 1
    IN  [k |-> "num", n |-> (s * n) \div g, d |-> (s * d) \div g]

Num(n) == Frac(n, 1)

IsNum(x) == x.k = "num"

FNeg(x) ==
    CASE x.k = "num" -> Frac(-x.n, x.d)
      [] x.k = "inf" -> NegInf
      [] x.k = "-inf" -> Inf
      [] OTHER -> NaN

FAdd(x, y) ==
    CASE x.k = "nan" \/ y.k = "nan" -> NaN
      [] x.k = "num" /\ y.k = "num" -> Frac(x.n * y.d + y.n * x.d, x.d * y.d)
      [] x.k = "num" -> y
      [] y.k = "num" -> x
      [] x.k = y.k -> x
      [] OTHER -> NaN

FSub(x, y) == FAdd(x, FNeg(y))

FMul(x, y) ==
    CASE x.k = "nan" \/ y.k = "nan" -> NaN
      [] x.k = "num" /\ y.k = "num" -> Frac(x.n * y.n, x.d * y.d)
      [] (x.k = "num" /\ x.n = 0) \/ (y.k = "num" /\ y.n = 0) -> NaN
      [] OTHER ->
           LET sx == IF x.k = "inf" \/ (x.k = "num" /\ x.n > 0) THEN 1 ELSE -1
               sy == IF y.k = "inf" \/ (y.k = "num" /\ y.n > 0) THEN 1 ELSE -1
           IN  IF sx * sy > 0 THEN Inf ELSE NegInf

\* a division that gives nan for every division by zero
FDivZeroIsNan(x, y) ==
    CASE x.k = "nan" \/ y.k = "nan" -> NaN
      [] x.k = "num" /\ y.k = "num" ->
           IF y.n # 0 THEN Frac(x.n * y.d, x.d * y.n) ELSE NaN
      [] x.k = "num" -> Num(0)
      [] y.k = "num" ->
           IF (x.k = "inf") = (y.n >= 0) THEN Inf ELSE NegInf
      [] OTHER -> NaN

\* numpy's float division: x/0 is +-inf, 0/0 is nan, and nothing is raised
FDiv(x, y) ==
    CASE x.k = "nan" \/ y.k = "nan" -> NaN
      [] x.k = "num" /\ y.k = "num" ->
           IF y.n # 0 THEN Frac(x.n * y.d, x.d * y.n)
           ELSE IF x.n > 0 THEN Inf
           ELSE IF x.n < 0 THEN NegInf
           ELSE NaN
      [] x.k = "num" -> Num(0)
      [] y.k = "num" ->
           IF (x.k = "inf") = (y.n >= 0) THEN Inf ELSE NegInf
      [] OTHER -> NaN

\* x > 0 and x < 0 as pandas compares: any comparison with nan is False
FGtZero(x) == x.k = "inf" \/ (x.k = "num" /\ x.n > 0)
FLtZero(x) == x.k = "-inf" \/ (x.k = "num" /\ x.n < 0)

\* x <= y for two finite values
FLeq(x, y) == x.n * y.d <= y.n * x.d

\* ------------------------------------------------------------ Series ops
\* Series.diff(): the first element has no predecessor
Diff(xs) ==
    [i \in 1..Len(xs) |-> IF i = 1 THEN NaN ELSE FSub(xs[i], xs[i - 1])]

\* Series.where(cond, other): keep the value where cond holds, else other
WhereGtZero(xs, other) ==
    [i \in 1..Len(xs) |-> IF FGtZero(xs[i]) THEN xs[i] ELSE other]

WhereLtZero(xs, other) ==
    [i \in 1..Len(xs) |-> IF FLtZero(xs[i]) THEN xs[i] ELSE other]

SeriesNeg(xs) == [i \in 1..Len(xs) |-> FNeg(xs[i])]

\* the sliding sum and observation count pandas keeps while it rolls: the
\* entering value is added, the value leaving the window is removed; a nan
\* is not an observation
RECURSIVE RollState(_, _, _)
RollState(xs, w, i) ==
    IF i = 0 THEN [sum |-> Num(0), nobs |-> 0]
    ELSE LET p == RollState(xs, w, i - 1)
             a == IF xs[i].k = "nan" THEN p
                  ELSE [sum |-> FAdd(p.sum, xs[i]), nobs |-> p.nobs + 1]
         IN  IF i > w /\ xs[i - w].k # "nan"
             THEN [sum |-> FSub(a.sum, xs[i - w]), nobs |-> a.nobs - 1]
             ELSE a

\* the rolling mean with min_periods=1
RollingMeanMinPeriodsOne(xs, w) ==
    [i \in 1..Len(xs) |->
        LET st == RollState(xs, w, i)
        IN  IF st.nobs >= 1 THEN FDiv(st.sum, Num(st.nobs)) ELSE NaN]

\* Series.rolling(window=w).mean(): min_periods defaults to the window
RollingMean(xs, w) ==
    [i \in 1..Len(xs) |->
        LET st == RollState(xs, w, i)
        IN  IF st.nobs >= w THEN FDiv(st.sum, Num(st.nobs)) ELSE NaN]

\* data['Close']
CloseColumn(data) == [i \in 1..Len(data) |-> data[i].vals["Close"]]

\* ------------------------------------------------------------ indicators
calculate_sma(data, window) == RollingMean(CloseColumn(data), window)

RsiGain(delta, window) == RollingMean(WhereGtZero(delta, Num(0)), window)

\* the loss without the sign change
RsiLossUnnegated(delta, window) ==
    RollingMean(WhereLtZero(delta, Num(0)), window)

RsiLoss(delta, window) ==
    RollingMean(SeriesNeg(WhereLtZero(delta, Num(0))), window)

calculate_rsi(data, window) ==
    LET delta == Diff(CloseColumn(data))
        gain == RsiGain(delta, window)
        loss == RsiLoss(delta, window)
    IN  [i \in 1..Len(data) |->
            LET rs == FDiv(gain[i], loss[i])
            IN  FSub(Num(100), FDiv(Num(100), FAdd(Num(1), rs)))]

\* --------------------------------------------------------- provider data
SeriesKey == "Time Series (5min)"

ProviderFields == {"1. open", "2. high", "3. low", "4. close", "5. volume"}

\* df.rename(columns={...}): the five provider names get canonical names and
\* every other column keeps the name it has
RenameMap ==
    [f \in ProviderFields |->
        CASE f = "1. open" -> "Open"
          [] f = "2. high" -> "High"
          [] f = "3. low" -> "Low"
          [] f = "4. close" -> "Close"
          [] OTHER -> "Volume"]

Rename(col) == IF col \in DOMAIN RenameMap THEN RenameMap[col] ELSE col

\* the provider's timestamp strings, one per 5-minute bar
TsStrings ==
    << "2024-01-02 09:30:00", "2024-01-02 09:35:00", "2024-01-02 09:40:00",
       "2024-01-02 09:45:00", "2024-01-02 09:50:00", "2024-01-02 09:55:00" >>

Instants == 1..MaxInstant

\* pd.to_datetime on one index label: the instant of a well-formed label;
\* any other label makes the call raise ValueError
IsTimestamp(s) == \E i \in DOMAIN TsStrings : TsStrings[i] = s

ToDatetime(s) == CHOOSE i \in DOMAIN TsStrings : TsStrings[i] = s

NumericRange == 0..(2 * MaxPrice + 7)

\* a cell holding the string s, as from_dict leaves it
Str(s) == [k |-> "str", s |-> s]

\* pd.to_numeric on one cell: a missing cell stays missing, a decimal string
\* becomes its number; any other string makes the call raise ValueError
IsNumeric(cell) ==
    cell.k = "nan" \/ \E n \in NumericRange : ToString(n) = cell.s

ToNumeric(cell) ==
    IF cell.k = "nan" THEN NaN
    ELSE Num(CHOOSE n \in NumericRange : ToString(n) = cell.s)

\* ------------------------------------------------------------- DataFrame
\* A frame is a sequence of rows [ts, vals]; vals maps every column to a cell.
EmptyFrame == << >>

\* data.empty: no rows, or no columns
IsEmpty(df) == Len(df) = 0 \/ \A i \in 1..Len(df) : DOMAIN df[i].vals = {}

\* pd.DataFrame.from_dict(series, orient='index'): one row per key in payload
\* order, one column per field name seen in any row, nan where a row lacks it
FromDict(series) ==
    LET cols == UNION {DOMAIN series[i].val : i \in 1..Len(series)}
    IN  [i \in 1..Len(series) |->
            [ts |-> series[i].key,
             vals |-> [c \in cols |->
                         IF c \in DOMAIN series[i].val
                         THEN Str(series[i].val[c])
                         ELSE NaN]]]

\* a rename that keeps the five canonical columns only
RenameColumnsKnownOnly(df) ==
    [i \in 1..Len(df) |->
        [ts |-> df[i].ts,
         vals |-> [c \in {RenameMap[f] : f \in DOMAIN df[i].vals \cap ProviderFields} |->
                     df[i].vals[CHOOSE f \in DOMAIN df[i].vals : Rename(f) = c]]]]

RenameColumns(df) ==
    [i \in 1..Len(df) |->
        [ts |-> df[i].ts,
         vals |-> [c \in {Rename(f) : f \in DOMAIN df[i].vals} |->
                     df[i].vals[CHOOSE f \in DOMAIN df[i].vals : Rename(f) = c]]]]

ParseIndex(df) ==
    [i \in 1..Len(df) |-> [ts |-> ToDatetime(df[i].ts), vals |-> df[i].vals]]

ParseColumns(df) ==
    [i \in 1..Len(df) |->
        [ts |-> df[i].ts,
         vals |-> [c \in DOMAIN df[i].vals |-> ToNumeric(df[i].vals[c])]]]

\* insertion of one row into a frame already sorted by ts
RECURSIVE InsertRow(_, _)
InsertRow(df, row) ==
    IF df = << >> THEN << row >>
    ELSE IF row.ts < df[Len(df)].ts
         THEN Append(InsertRow(SubSeq(df, 1, Len(df) - 1), row), df[Len(df)])
         ELSE Append(df, row)

\* the frame returned in payload order
SortIndexSkipped(df) == df

\* df.sort_index(): ascending by ts
RECURSIVE SortIndex(_)
SortIndex(df) ==
    IF df = << >> THEN << >>
    ELSE InsertRow(SortIndex(SubSeq(df, 1, Len(df) - 1)), df[Len(df)])

\* the frame with one more column
WithColumn(df, name, col) ==
    [i \in 1..Len(df) |->
        [ts |-> df[i].ts,
         vals |-> [c \in DOMAIN df[i].vals \cup {name} |->
                     IF c = name THEN col[i] ELSE df[i].vals[c]]]]

\* Series.max() and Series.min(): nan cells are skipped
RECURSIVE SeriesMax(_)
SeriesMax(xs) ==
    IF xs = << >> THEN NaN
    ELSE LET rest == SeriesMax(SubSeq(xs, 1, Len(xs) - 1))
             x == xs[Len(xs)]
         IN  IF x = NaN THEN rest
             ELSE IF rest = NaN THEN x
             ELSE IF FLeq(rest, x) THEN x ELSE rest

RECURSIVE SeriesMin(_)
SeriesMin(xs) ==
    IF xs = << >> THEN NaN
    ELSE LET rest == SeriesMin(SubSeq(xs, 1, Len(xs) - 1))
             x == xs[Len(xs)]
         IN  IF x = NaN THEN rest
             ELSE IF rest = NaN THEN x
             ELSE IF FLeq(x, rest) THEN x ELSE rest

Column(df, name) == [i \in 1..Len(df) |-> df[i].vals[name]]

\* -------------------------------------------------------- get_stock_data
\* lines 29-37: the normalisation of the payload's series
Normalize(series) ==
    LET df == RenameColumns(FromDict(series))
    IN  IF \E i \in 1..Len(df) : ~IsTimestamp(df[i].ts)
        THEN [exc |-> "ValueError", value |-> EmptyFrame]
        ELSE IF \E i \in 1..Len(df) : \E c \in DOMAIN df[i].vals :
                   ~IsNumeric(df[i].vals[c])
        THEN [exc |-> "ValueError", value |-> EmptyFrame]
        ELSE [exc |-> "none", value |-> SortIndex(ParseColumns(ParseIndex(df)))]

\* an except clause that names the wrong exception class
CaughtValueErrorOnly == {"ValueError"}

\* the exceptions the except clause of get_stock_data catches
CaughtByGetStockData == {"RequestException"}

\* what the try block raises on the provider's answer: requests.get and
\* raise_for_status raise RequestException, the normalisation ValueError
RaisedInTry(resp) ==
    IF resp.kind = "RequestException" THEN "RequestException"
    ELSE IF SeriesKey \notin DOMAIN resp.json THEN "none"
    ELSE Normalize(resp.json[SeriesKey]).exc

\* the body of get_stock_data on the provider's answer: what it returns, what
\* it lets escape and what it reports with st.error
get_stock_data(resp) ==
    LET raised == RaisedInTry(resp)
    IN  IF raised \in CaughtByGetStockData
        THEN [exc |-> "none", value |-> EmptyFrame, errors |-> {"request"}]
        ELSE IF raised # "none"
        THEN [exc |-> raised, value |-> EmptyFrame, errors |-> {}]
        ELSE IF SeriesKey \notin DOMAIN resp.json
        THEN [exc |-> "none", value |-> EmptyFrame, errors |-> {"schema"}]
        ELSE [exc |-> "none", value |-> Normalize(resp.json[SeriesKey]).value,
              errors |-> {}]

\* ------------------------------------------------------------- the cache
ApiKeys == {"demo"}
Symbols == {"MSFT", "AAPL"}
CacheKeys == ApiKeys \X Symbols

NoEntry == [present |-> FALSE, at |-> 0, value |-> EmptyFrame, errors |-> {}]

\* an entry of st.cache_data(ttl=600) is served while it is younger than ttl
Fresh(entry, t) == entry.present /\ t - entry.at < Ttl

\* what the cache keeps of a call: every value the function returns is
\* stored with the st.error calls it made; a call that raises stores nothing
Stored(result, t) ==
    IF result.exc = "none"
    THEN [present |-> TRUE, at |-> t, value |-> result.value,
          errors |-> result.errors]
    ELSE NoEntry

\* the decorated get_stock_data(api_key, symbol): the result, the number of
\* HTTP requests issued and the cache afterwards
CachedGetStockData(c, t, api_key, symbol, resp) ==
    LET key == << api_key, symbol >>
    IN  IF Fresh(c[key], t)
        THEN [result |-> [exc |-> "none", value |-> c[key].value,
                          errors |-> c[key].errors],
              requests |-> 0, cache |-> c]
        ELSE LET r == get_stock_data(resp)
             IN  [result |-> r, requests |-> 1,
                  cache |-> [c EXCEPT ![key] = Stored(r, t)]]

\* ------------------------------------------------------- the script body
\* str.upper() on the symbols the sidebar is given
Upper(s) == IF s = "msft" THEN "MSFT" ELSE IF s = "aapl" THEN "AAPL" ELSE s

\* no HTTP request was issued, so no answer was read
NoResponse == [kind |-> "none", json |-> << >>]

NoMetrics ==
    [shown |-> FALSE, last_price |-> NaN, price_change |-> NaN,
     price_change_pct |-> NaN, day_high |-> NaN, day_low |-> NaN]

\* the close of the first row instead of the second-to-last
PrevCloseOfFirst(data) == data[1].vals["Close"]

\* data.iloc[-2]['Close']
PrevClose(data) == data[Len(data) - 1].vals["Close"]

\* lines 81-89 on a frame of at least two rows
Metrics(data) ==
    LET latest_data == data[Len(data)]
        prev_close == PrevClose(data)
        price_change == FSub(latest_data.vals["Close"], prev_close)
    IN  [shown |-> TRUE,
         last_price |-> latest_data.vals["Close"],
         price_change |-> price_change,
         price_change_pct |-> FMul(FDiv(price_change, prev_close), Num(100)),
         day_high |-> SeriesMax(Column(data, "High")),
         day_low |-> SeriesMin(Column(data, "Low"))]

\* lines 76-78: the three indicator columns
WithIndicators(data, sma_short_window, sma_long_window) ==
    WithColumn(
        WithColumn(
            WithColumn(data, "SMA_Short", calculate_sma(data, sma_short_window)),
            "SMA_Long", calculate_sma(data, sma_long_window)),
        "RSI", calculate_rsi(data, RsiDefaultWindow))

Idle ==
    [ran |-> FALSE, api_key |-> "", symbol |-> "", requests |-> 0,
     response |-> NoResponse, errors |-> {}, exception |-> "none", data |-> EmptyFrame,
     steps |-> {}, metrics |-> NoMetrics, info |-> FALSE]

\* lines 67-131: one run of the script after the sidebar is read
RunScript(c, t, api_key, symbol_input, resp) ==
    IF api_key = ""
    THEN [cache |-> c,
          view |-> [Idle EXCEPT !.symbol = Upper(symbol_input)]]
    ELSE
    LET symbol == Upper(symbol_input)
        call == CachedGetStockData(c, t, api_key, symbol, resp)
        data == call.result.value
        base == [Idle EXCEPT !.ran = TRUE, !.api_key = api_key,
                             !.symbol = symbol, !.requests = call.requests,
                             !.response = IF call.requests = 0 THEN NoResponse
                                          ELSE resp,
                             !.errors = call.result.errors]
    IN  [cache |-> call.cache,
         view |->
           IF call.result.exc # "none"
           THEN [base EXCEPT !.exception = call.result.exc]
           ELSE IF IsEmpty(data)
           THEN [base EXCEPT !.info = TRUE]
           ELSE LET ind == WithIndicators(data, SmaShortDefault, SmaLongDefault)
                    full == [base EXCEPT !.data = ind,
                                         !.steps = {"sma_short", "sma_long", "rsi"}]
                IN  IF Len(ind) < 2
                    THEN [full EXCEPT !.exception = "IndexError"]
                    ELSE [full EXCEPT !.steps = @ \cup {"snapshot"},
                                      !.metrics = Metrics(ind)]]

\* ------------------------------------------------------- provider answers
RequestFailed == [kind |-> "RequestException", json |-> << >>]

Json(body) == [kind |-> "json", json |-> body]

\* a well-formed bar: close c, high and low a spread away from it
Bar(c, spread) ==
    ("1. open" :> ToString(c)) @@ ("2. high" :> ToString(c + spread)) @@
    ("3. low" :> ToString(c - spread)) @@ ("4. close" :> ToString(c)) @@
    ("5. volume" :> ToString(5))

BadCloseBar == ("4. close" :> "abc") @@ Bar(1, 0)
ExtraFieldBar == ("6. vwap" :> ToString(2)) @@ Bar(1, 0)

\* every close with high = low = close, and the two extreme closes with a
\* high above and a low below
ValueBars == {Bar(c, 0) : c \in 1..MaxPrice} \cup {Bar(1, 1), Bar(MaxPrice, 1)}
ShapeBars == {Bar(1, 0), BadCloseBar, ExtraFieldBar}

GoodLabels == {TsStrings[i] : i \in Instants}
BadLabel == "02/01/2024 9h30"

\* the JSON objects of at most n entries over the labels and bars: the keys
\* of an object are distinct, their order is the order of the document
RECURSIVE Objects(_, _, _)
Objects(labels, bars, n) ==
    IF n = 0 THEN {<< >>}
    ELSE LET shorter == Objects(labels, bars, n - 1)
             longest == {x \in shorter : Len(x) = n - 1}
         IN  shorter \cup
             UNION {{Append(s, [key |-> l, val |-> b]) :
                        l \in labels \ {s[i].key : i \in 1..Len(s)},
                        b \in bars} : s \in longest}

SeriesOver(labels, bars) == Objects(labels, bars, MaxRows)

NoSeriesBody == ("Error Message" :> "Invalid API call.")

RichResponses ==
    {RequestFailed, Json(NoSeriesBody)}
    \cup {Json(SeriesKey :> s) : s \in SeriesOver(GoodLabels, ValueBars)}
    \cup {Json(SeriesKey :> s) :
            s \in SeriesOver(GoodLabels \cup {BadLabel}, ShapeBars)}

SmallResponses ==
    {RequestFailed,
     Json(NoSeriesBody),
     Json(SeriesKey :> << >>),
     Json(SeriesKey :> << [key |-> TsStrings[1], val |-> Bar(2, 1)] >>),
     Json(SeriesKey :> << [key |-> TsStrings[2], val |-> Bar(2, 0)],
                          [key |-> TsStrings[1], val |-> Bar(1, 1)] >>),
     Json(SeriesKey :> << [key |-> BadLabel, val |-> Bar(1, 0)] >>)}

\* ------------------------------------------------------------------ state
VARIABLES
    wire,       \* what the provider answers to the next HTTP request
    now,        \* the clock, in seconds
    cache,      \* st.cache_data's entries for get_stock_data
    last,       \* what the last run of the script did and showed
    in_data,    \* the frame given to a direct indicator call
    in_window,  \* the window given to a direct indicator call
    out_sma,    \* what calculate_sma returned
    out_rsi     \* what calculate_rsi returned

vars == << wire, now, cache, last, in_data, in_window, out_sma, out_rsi >>

dashVars == << wire, now, cache, last >>
indVars == << in_data, in_window, out_sma, out_rsi >>

NotCalled == [called |-> FALSE, col |-> << >>]

\* the frame whose Close column is the given closes
CloseFrame(closes) ==
    [i \in 1..Len(closes) |->
        [ts |-> i, vals |-> ("Close" :> Num(closes[i]))]]

CloseSeries == UNION {[1..n -> 1..MaxPrice] : n \in 0..MaxLen}

DashInit(responses) ==
    /\ wire \in responses
    /\ now = 0
    /\ cache = [k \in CacheKeys |-> NoEntry]
    /\ last = Idle

IndIdle ==
    /\ in_data = EmptyFrame
    /\ in_window = 1
    /\ out_sma = NotCalled
    /\ out_rsi = NotCalled

\* ---------------------------------------------------------------- actions
\* the user changes a sidebar input and Streamlit reruns the script
Interaction(api_key, symbol_input) ==
    /\ LET run == RunScript(cache, now, api_key, symbol_input, wire)
       IN  /\ cache' = run.cache
           /\ last' = run.view
    /\ UNCHANGED << wire, now, indVars >>

\* time passes, half a time-to-live at a step
Tick ==
    /\ now < MaxTicks * (Ttl \div 2)
    /\ now' = now + Ttl \div 2
    /\ UNCHANGED << wire, cache, last, indVars >>

\* the provider's answer to the next request changes
ProviderChanges ==
    /\ wire' \in SmallResponses \ {wire}
    /\ UNCHANGED << now, cache, last, indVars >>

CallSma ==
    /\ ~out_sma.called
    /\ out_sma' = [called |-> TRUE, col |-> calculate_sma(in_data, in_window)]
    /\ UNCHANGED << dashVars, in_data, in_window, out_rsi >>

CallRsi ==
    /\ ~out_rsi.called
    /\ out_rsi' = [called |-> TRUE, col |-> calculate_rsi(in_data, in_window)]
    /\ UNCHANGED << dashVars, in_data, in_window, out_sma >>

\* --------------------------------------------------------- specifications
\* the dashboard over time: sidebar inputs, the cache and the clock
Init == DashInit(SmallResponses) /\ IndIdle

Next ==
    \/ \E k \in ApiKeys \cup {""}, s \in Symbols \cup {"msft"} : Interaction(k, s)
    \/ Tick
    \/ ProviderChanges

Spec == Init /\ [][Next]_vars

\* one symbol against every provider answer within the bounds
PipeInit == DashInit(RichResponses) /\ IndIdle

PipeNext == Interaction("demo", "msft")

SpecPipe == PipeInit /\ [][PipeNext]_vars

\* the indicator functions on every close series within the bounds
IndInit ==
    /\ wire = RequestFailed
    /\ now = 0
    /\ cache = [k \in CacheKeys |-> NoEntry]
    /\ last = Idle
    /\ in_data \in {CloseFrame(cs) : cs \in CloseSeries}
    /\ in_window \in 1..MaxWin
    /\ out_sma = NotCalled
    /\ out_rsi = NotCalled

IndNext == CallSma \/ CallRsi

SpecInd == IndInit /\ [][IndNext]_vars

\* ---------------------------------------------------- indicator claims
\* the closes given to the direct indicator call, as integers
InCloses == [i \in 1..Len(in_data) |-> in_data[i].vals["Close"].n]

RECURSIVE SumRange(_, _, _)
SumRange(xs, lo, hi) == IF hi < lo THEN 0 ELSE xs[hi] + SumRange(xs, lo, hi - 1)

\* the positive part and the magnitude of the negative part of the change of
\* the closes at position i; the first close has no change
GainAt(cs, i) == IF i > 1 /\ cs[i] > cs[i - 1] THEN cs[i] - cs[i - 1] ELSE 0
LossAt(cs, i) == IF i > 1 /\ cs[i] < cs[i - 1] THEN cs[i - 1] - cs[i] ELSE 0

\* C1: calculate_sma(series, w) is missing at every position before the
\* window is full, is the mean of the w closes ending at the position from
\* then on, and does not change there when a close outside those w changes.
\* (Positions count from 1 here: index i of the claim is position i + 1.)
C1_SmaWindowMean ==
    out_sma.called =>
        \A i \in 1..Len(in_data) :
            /\ i < in_window => out_sma.col[i] = NaN
            /\ i >= in_window =>
                 /\ out_sma.col[i] =
                        Frac(SumRange(InCloses, i - in_window + 1, i), in_window)
                 /\ \A j \in 1..Len(in_data), v \in 1..MaxPrice :
                        (j < i - in_window + 1 \/ j > i) =>
                            calculate_sma(
                                CloseFrame([InCloses EXCEPT ![j] = v]),
                                in_window)[i] = out_sma.col[i]

C1_Witness ==
    /\ out_sma.called
    /\ in_window >= 2
    /\ Len(in_data) > in_window
    /\ out_sma.col[1] = NaN
    /\ out_sma.col[Len(in_data)] # NaN
    /\ out_sma.col[Len(in_data)] # out_sma.col[Len(in_data) - 1]

\* C2: every value calculate_rsi returns that is not missing is a number in
\* the closed interval [0, 100].
C2_RsiBounded ==
    out_rsi.called =>
        \A i \in 1..Len(in_data) :
            out_rsi.col[i] # NaN =>
                /\ IsNum(out_rsi.col[i])
                /\ 0 <= out_rsi.col[i].n
                /\ out_rsi.col[i].n <= 100 * out_rsi.col[i].d

C2_Witness ==
    /\ out_rsi.called
    /\ \E i \in 1..Len(in_data) :
          /\ IsNum(out_rsi.col[i])
          /\ 0 < out_rsi.col[i].n
          /\ out_rsi.col[i].n < 100 * out_rsi.col[i].d

\* C3: where the trailing window is full, calculate_rsi returns exactly 100
\* if and only if the window's mean loss is zero and its mean gain is
\* positive, returns the missing value when both are zero, and returns a
\* number or the missing value (never an error, never an infinity) throughout.
C3_RsiSaturates ==
    out_rsi.called =>
        \A i \in in_window..Len(in_data) :
            LET g == SumRange([k \in 1..Len(in_data) |-> GainAt(InCloses, k)],
                              i - in_window + 1, i)
                l == SumRange([k \in 1..Len(in_data) |-> LossAt(InCloses, k)],
                              i - in_window + 1, i)
            IN  /\ out_rsi.col[i] = Num(100) <=> (l = 0 /\ g > 0)
                /\ (l = 0 /\ g = 0) => out_rsi.col[i] = NaN
                /\ out_rsi.col[i].k \in {"num", "nan"}

C3_Witness ==
    /\ out_rsi.called
    /\ in_window >= 2
    /\ \E i, j, k \in in_window..Len(in_data) :
          /\ out_rsi.col[i] = Num(100)
          /\ out_rsi.col[j] = NaN
          /\ IsNum(out_rsi.col[k]) /\ out_rsi.col[k] # Num(100)

\* ---------------------------------------------------- dashboard claims
CanonicalColumns == {"Open", "High", "Low", "Close", "Volume"}

\* the last run issued a request and the answer carried the series key
FetchedSeries ==
    /\ last.ran
    /\ last.requests = 1
    /\ last.response.kind = "json"
    /\ SeriesKey \in DOMAIN last.response.json

LastSeries == last.response.json[SeriesKey]

\* every label is a timestamp and every field value a number
WellFormed(series) ==
    \A i \in 1..Len(series) :
        /\ IsTimestamp(series[i].key)
        /\ \A f \in DOMAIN series[i].val : IsNumeric(Str(series[i].val[f]))

\* the entry the cache holds for the key of the last run
LastEntry == cache[<< last.api_key, last.symbol >>]

FieldAt(series, i, f) == ToNumeric(Str(series[i].val[f])).n

SetMax(S) == CHOOSE m \in S : \A x \in S : x <= m
SetMin(S) == CHOOSE m \in S : \A x \in S : m <= x

\* C4: a fetched series of fewer than 2 points makes the snapshot step fail
\* with InsufficientDataError, reported by an explicit guard.
C4_InsufficientDataGuard ==
    (FetchedSeries /\ WellFormed(LastSeries) /\ Len(LastSeries) < 2) =>
        /\ last.exception = "InsufficientDataError"
        /\ "snapshot" \notin last.steps

\* C5: a failed HTTP request, or a payload without the series key, ends
\* get_stock_data with an error report and an empty result, no exception
\* escapes, and that run computes no SMA, no RSI and no snapshot.
C5_FetchFailureIsEmpty ==
    (/\ last.ran
     /\ last.requests = 1
     /\ \/ last.response.kind = "RequestException"
        \/ /\ last.response.kind = "json"
           /\ SeriesKey \notin DOMAIN last.response.json) =>
        /\ last.exception = "none"
        /\ last.errors =
             IF last.response.kind = "json" THEN {"schema"} ELSE {"request"}
        /\ last.data = EmptyFrame
        /\ last.steps = {}
        /\ last.metrics = NoMetrics
        /\ LastEntry.value = EmptyFrame

C5_Witness ==
    /\ last.ran
    /\ last.requests = 1
    /\ last.response.kind = "json"
    /\ SeriesKey \notin DOMAIN last.response.json
    /\ last.errors = {"schema"}
    /\ last.info

\* C6: a payload with the series key that holds a malformed timestamp or a
\* non-numeric field value ends the run with an error report and an empty
\* result; no exception escapes.
C6_ParseErrorIsReported ==
    (FetchedSeries /\ ~WellFormed(LastSeries)) =>
        /\ last.exception = "none"
        /\ last.errors # {}
        /\ last.data = EmptyFrame

\* C7: a well-formed payload of N entries (its labels are distinct) gives a
\* series of N points with strictly increasing timestamps, each point being
\* one entry of the payload with its parsed values, so that the series is
\* the same whatever the order of the entries (checked on the reversed
\* payload too).
C7_NormalizedSorted ==
    (FetchedSeries /\ WellFormed(LastSeries)) =>
        LET n == Len(LastSeries)
            out == LastEntry.value
        IN  /\ LastEntry.present
            /\ Len(out) = n
            /\ Len(last.data) = n
            /\ \A i, j \in 1..n : i < j => out[i].ts < out[j].ts
            /\ {out[i].ts : i \in 1..n} =
                   {ToDatetime(LastSeries[i].key) : i \in 1..n}
            /\ \A i \in 1..n : last.data[i].ts = out[i].ts
            /\ \A i \in 1..n : \E r \in 1..n :
                   /\ out[r].ts = ToDatetime(LastSeries[i].key)
                   /\ \A f \in ProviderFields \cap DOMAIN LastSeries[i].val :
                          out[r].vals[Rename(f)] = Num(FieldAt(LastSeries, i, f))
            /\ Normalize([i \in 1..n |-> LastSeries[n + 1 - i]]).value = out

C7_Witness ==
    /\ FetchedSeries
    /\ WellFormed(LastSeries)
    /\ Len(LastSeries) = 3
    /\ ToDatetime(LastSeries[1].key) > ToDatetime(LastSeries[2].key)
    /\ ToDatetime(LastSeries[3].key) < ToDatetime(LastSeries[2].key)
    /\ Len(LastEntry.value) = 3

\* C8 as claimed: the series get_stock_data returns carries only the five
\* canonical columns; a field of any other name is dropped.
C8_OnlyCanonicalColumns ==
    (FetchedSeries /\ LastEntry.present) =>
        \A i \in 1..Len(LastEntry.value) :
            DOMAIN LastEntry.value[i].vals \subseteq CanonicalColumns

\* C8 as amended: the five provider fields appear under their canonical
\* names and every other field of the payload is kept as a column under its
\* own name, holding its number in the rows that have it and the missing
\* value in the rows that do not.
C8_UnknownFieldsKept ==
    (FetchedSeries /\ WellFormed(LastSeries)) =>
        LET n == Len(LastSeries)
            out == LastEntry.value
            fields == UNION {DOMAIN LastSeries[i].val : i \in 1..n}
            unknown == fields \ ProviderFields
        IN  \A i \in 1..n : \A r \in 1..n :
                ToDatetime(LastSeries[i].key) = out[r].ts =>
                    /\ DOMAIN out[r].vals =
                         unknown \cup
                         {c \in CanonicalColumns :
                            \E f \in fields \cap ProviderFields : Rename(f) = c}
                    /\ \A f \in unknown :
                         out[r].vals[f] =
                            IF f \in DOMAIN LastSeries[i].val
                            THEN Num(FieldAt(LastSeries, i, f))
                            ELSE NaN
                    /\ out[r].vals["Close"] =
                         Num(FieldAt(LastSeries, i, "4. close"))

C8_Witness ==
    /\ FetchedSeries
    /\ LastEntry.present
    /\ Len(LastEntry.value) = 2
    /\ "6. vwap" \in DOMAIN LastEntry.value[1].vals
    /\ LastEntry.value[1].vals["6. vwap"] = NaN
    /\ LastEntry.value[2].vals["6. vwap"] = Num(2)

\* C9: on a series of at least 2 points the snapshot shows change = last
\* close - previous close, change_pct = 100 * change / previous close,
\* day_high = the largest high and day_low = the smallest low of the series,
\* last and previous being the two latest points in time.
C9_SnapshotValues ==
    (FetchedSeries /\ WellFormed(LastSeries) /\ Len(LastSeries) >= 2) =>
        LET n == Len(LastSeries)
            t == [i \in 1..n |-> ToDatetime(LastSeries[i].key)]
            iLast == CHOOSE i \in 1..n : \A j \in 1..n : t[j] <= t[i]
            iPrev == CHOOSE i \in (1..n) \ {iLast} :
                         \A j \in (1..n) \ {iLast} : t[j] <= t[i]
            cl == FieldAt(LastSeries, iLast, "4. close")
            cp == FieldAt(LastSeries, iPrev, "4. close")
        IN  /\ last.exception = "none"
            /\ last.metrics.shown
            /\ last.metrics.last_price = Num(cl)
            /\ last.metrics.price_change = Num(cl - cp)
            /\ last.metrics.price_change_pct = Frac(100 * (cl - cp), cp)
            /\ last.metrics.day_high =
                 Num(SetMax({FieldAt(LastSeries, i, "2. high") : i \in 1..n}))
            /\ last.metrics.day_low =
                 Num(SetMin({FieldAt(LastSeries, i, "3. low") : i \in 1..n}))

C9_Witness ==
    /\ FetchedSeries
    /\ Len(LastSeries) = 3
    /\ last.metrics.shown
    /\ last.metrics.price_change = Num(-1)
    /\ last.metrics.price_change_pct = Frac(-100, 3)
    /\ last.metrics.day_high = Num(4)
    /\ last.metrics.day_low = Num(0)
    /\ last.metrics.last_price = Num(2)
    /\ LastSeries[1].key = TsStrings[3]

\* C10: the cache memoizes a successful fetch only: a run that shows a fetch
\* or schema failure has issued its own HTTP request, and no run issues more
\* than one.
C10_FailuresNotMemoized ==
    last.ran =>
        /\ last.requests <= 1
        /\ last.errors # {} => last.requests = 1

=============================================================================
